---- MODULE Spec2Model ----
(***************************************************************************)
(* A model of the community-detection crate (src/lib.rs, src/main.rs):     *)
(* parallel construction of a weighted directed graph from a CSV file,     *)
(* labelling of its strongly connected components, and the DOT descriptor. *)
(*                                                                         *)
(* Numbers.  TLC's integers stop at 2^31 - 1, below u32::MAX.  A natural   *)
(* number n is therefore held as the pair <<n \div 2^16, n % 2^16>>; a u32 *)
(* is a pair whose first component is below 2^16.  The pair is normalised, *)
(* so two numbers are equal iff their pairs are equal.                     *)
(***************************************************************************)
EXTENDS Integers, Sequences, FiniteSets, TLC

\* ------------------------------------------------------------------ bounds

\* Longest generated input file, in rows (the header row included).
MaxRows == 3

\* Largest CommunityId a caller stores in the public labels map.
MaxCommunityId == 6

\* Threads of the rayon pool.
NumWorkers == 2

\* Largest count asked of generate_unique_batch, and most calls made on one
\* generator.
MaxCount == 2

MaxCalls == 2

\* ----------------------------------------------------------------- numbers

Limb == 2 ^ 16

Num(n) == <<n \div Limb, n % Limb>>

Zero == Num(0)

One == Num(1)

\* u32::MAX = 2^32 - 1
U32Max == <<Limb - 1, Limb - 1>>

FitsU32(n) == n[1] < Limb

Add(a, b) == <<a[1] + b[1] + ((a[2] + b[2]) \div Limb), (a[2] + b[2]) % Limb>>

Less(a, b) == a[1] < b[1] \/ (a[1] = b[1] /\ a[2] < b[2])

\* n * 10 + d for a decimal digit d
ShiftIn(n, d) == <<n[1] * 10 + ((n[2] * 10 + d) \div Limb), (n[2] * 10 + d) % Limb>>

\* wrapping_add of two u32: the sum modulo 2^32
WrappingAdd(a, b) == <<Add(a, b)[1] % Limb, Add(a, b)[2]>>

\* ------------------------------------------------------------ weight field

DigitChars == <<"0", "1", "2", "3", "4", "5", "6", "7", "8", "9">>

IsDigit(c) == \E i \in 1..Len(DigitChars) : DigitChars[i] = c

ToDigit(c) == (CHOOSE i \in 1..Len(DigitChars) : DigitChars[i] = c) - 1

ParseOk(n) == [ok |-> TRUE, val |-> n]

ParseErr == [ok |-> FALSE, val |-> Zero]

\* The digit loop of u32::from_str: every character must be a decimal digit,
\* and checked_mul(10) / checked_add(digit) fail on leaving the u32 range.
\* (The accumulator is bound to its value, n, before the loop body reads it.)
RECURSIVE ParseDigits(_, _)
ParseDigits(chars, acc) ==
    LET step(n) ==
            IF chars = <<>> THEN ParseOk(n)
            ELSE IF ~IsDigit(Head(chars)) THEN ParseErr
            ELSE IF ~FitsU32(ShiftIn(n, 0)) THEN ParseErr
            ELSE IF ~FitsU32(ShiftIn(n, ToDigit(Head(chars)))) THEN ParseErr
            ELSE ParseDigits(Tail(chars), ShiftIn(n, ToDigit(Head(chars))))
    IN  CHOOSE r \in {step(n) : n \in {acc}} : TRUE

\* str::parse::<u32>: empty input fails, a lone sign fails, one leading "+"
\* is accepted, "-" is not a digit of an unsigned type.
FromStrU32(chars) ==
    IF chars = <<>> THEN ParseErr
    ELSE IF Len(chars) = 1 /\ Head(chars) \in {"+", "-"} THEN ParseErr
    ELSE IF Head(chars) = "+" THEN ParseDigits(Tail(chars), Zero)
    ELSE ParseDigits(chars, Zero)

\* unwrap_or_default in place of unwrap_or(1): a failed parse gives 0.
UnwrapOr_Default(res, default) == res.val

UnwrapOr(res, default) == IF res.ok THEN res.val ELSE default

\* record[2].parse().unwrap_or(1)
ParseWeight(chars) == UnwrapOr(FromStrU32(chars), One)

\* ------------------------------------------------------------- input files

\* A row is the tuple of its fields; the identifier fields are strings and
\* the weight field is the sequence of its characters.

\* The rows the generated files are made of: the three directed pairs over
\* two identifiers, a zero and a non-numeric weight, and rows of one and of
\* two fields.
PlainRows ==
    { <<"x", "y", <<"2">>>>, <<"y", "x", <<"2">>>>, <<"x", "x", <<"2">>>>,
      <<"x", "y", <<"0">>>>, <<"x", "y", <<"w">>>> }

ShortRows == {<<"x">>, <<"x", "y">>}

Rows == PlainRows \cup ShortRows

RECURSIVE SeqsUpTo(_, _)
SeqsUpTo(S, n) ==
    IF n = 0 THEN {<<>>}
    ELSE LET shorter == SeqsUpTo(S, n - 1)
         IN  shorter \cup {Append(q, r) : q \in {t \in shorter : Len(t) = n - 1}, r \in S}

HeaderRow == <<"source", "target", <<"w">>>>

\* Weight fields that are empty, non-numeric, signed, zero, u32::MAX and
\* u32::MAX + 1, and two plain ones.
OddWeightTexts ==
    { <<>>, <<"w">>, <<"-", "1">>, <<"0">>,
      <<"4", "2", "9", "4", "9", "6", "7", "2", "9", "5">>,
      <<"4", "2", "9", "4", "9", "6", "7", "2", "9", "6">> }

WeightTexts == OddWeightTexts \cup {<<"2">>, <<"3">>}

\* Files of a header row and one or two rows for the pair (x, y), with every
\* weight field and every pair of weight fields.
WeightFiles ==
    {<<HeaderRow, <<"x", "y", t>>>> : t \in WeightTexts}
    \cup {<<HeaderRow, <<"x", "y", t>>, <<"x", "y", u>>>> : t \in WeightTexts, u \in WeightTexts}

\* The end-to-end example of the specification, as written and behind a
\* header row, its duplicate-row example, and three more shapes over three
\* nodes.
EndToEndRows ==
    << <<"alice", "bob", <<"5">>>>, <<"bob", "alice", <<"3">>>>, <<"carol", "dave", <<"7">>>> >>

DuplicateRows == << <<"x", "y", <<"2">>>>, <<"x", "y", <<"3">>>> >>

ShapeFiles ==
    { EndToEndRows,
      <<HeaderRow>> \o EndToEndRows,
      DuplicateRows,
      <<HeaderRow, <<"alice", "bob", <<"1">>>>, <<"bob", "carol", <<"1">>>>,
        <<"carol", "alice", <<"1">>>> >>,
      <<HeaderRow, <<"alice", "bob", <<"1">>>>, <<"carol", "bob", <<"1">>>>,
        <<"bob", "carol", <<"1">>>> >>,
      <<HeaderRow, <<"alice", "alice", <<"1">>>>, <<"bob", "carol", <<"1">>>>,
        <<"carol", "bob", <<"1">>>> >> }

Files ==
    {[exists |-> FALSE, rows |-> <<>>]}
    \cup {[exists |-> TRUE, rows |-> rs] :
            rs \in SeqsUpTo(Rows, MaxRows) \cup WeightFiles \cup ShapeFiles}

\* csv::Reader with its default settings: the first row is taken as the
\* header and is not yielded, and a later row whose number of fields differs
\* from the first row's is yielded as Err(UnequalLengths).
Records(rows) ==
    [i \in 1..(IF rows = <<>> THEN 0 ELSE Len(rows) - 1) |->
        [ok |-> Len(rows[i + 1]) = Len(rows[1]), fields |-> rows[i + 1]]]

\* ------------------------------------------------------------------- state

Workers == 1..NumWorkers

NoWorker == 0

NoRecord == [ok |-> FALSE, fields |-> <<>>]

\* Option<NodeIndex> / Option<EdgeIndex>: indices are zero-based, None is -1.
None == -1

VARIABLES
    file,           \* the input file
    result,         \* "start", "running", "ok", "err", "panic": the from_csv call
    next,           \* records already handed out by the bridged iterator
    pc,             \* per worker: position in the for_each closure
    record,         \* per worker: the csv Result it is processing
    weight,         \* per worker: the parsed weight
    node1,          \* per worker: NodeIndex of user1
    node2,          \* per worker: NodeIndex of user2
    found,          \* per worker: the result of find_edge
    graphLock,      \* holder of the graph mutex
    indicesLock,    \* holder of the node_indices mutex
    poisoned,       \* mutexes poisoned by a panic of their holder
    nodes,          \* graph node weights, nodes[i + 1] for NodeIndex i
    edges,          \* graph edges in EdgeIndex order
    node_indices,   \* the registry: identifier -> NodeIndex
    labels,         \* CommunityDetector.labels
    communities,    \* the value last returned by get_communities
    dotFile,        \* the contents of the file save_graph_to_dot writes
    detected,       \* detect_communities has run on this detector
    lastCall,       \* the method called last, and how it ended
    used_names,     \* UsernameGenerator.used_names
    genPc,          \* generate_unique_batch: "idle" or "running"
    slots,          \* the running call's items 0..count, slots[i + 1] for item i
    making,         \* per worker: the item and the name it has formatted
    returned        \* the batches returned so far, oldest first

buildVars ==
    <<file, result, next, pc, record, weight, node1, node2, found,
      graphLock, indicesLock, poisoned, nodes, edges, node_indices>>

detectorVars == <<labels, communities, dotFile, detected, lastCall>>

genVars == <<used_names, genPc, slots, making, returned>>

vars == <<buildVars, detectorVars, genVars>>

EmptyMap == [k \in {} |-> 0]

NoValue == <<"absent">>

\* No item in the making.
NoItem == [item |-> None, name |-> <<>>]

\* UsernameGenerator::new() (line 31): no name used, no call made.
NewGenerator ==
    /\ used_names = {}
    /\ genPc = "idle"
    /\ slots = <<>>
    /\ making = [w \in Workers |-> NoItem]
    /\ returned = <<>>

Init ==
    /\ file \in Files
    /\ result = "start"
    /\ next = 0
    /\ pc = [w \in Workers |-> "idle"]
    /\ record = [w \in Workers |-> NoRecord]
    /\ weight = [w \in Workers |-> Zero]
    /\ node1 = [w \in Workers |-> None]
    /\ node2 = [w \in Workers |-> None]
    /\ found = [w \in Workers |-> None]
    /\ graphLock = NoWorker
    /\ indicesLock = NoWorker
    /\ poisoned = {}
    /\ nodes = <<>>
    /\ edges = <<>>
    /\ node_indices = EmptyMap
    /\ labels = EmptyMap
    /\ communities = NoValue
    /\ dotFile = NoValue
    /\ detected = FALSE
    /\ lastCall = "none"
    /\ NewGenerator

\* ------------------------------------------------------------ construction

\* Reader::from_path(filename)?  (lines 94-98)
Open ==
    /\ result = "start"
    /\ result' = IF file.exists THEN "running" ELSE "err"
    /\ UNCHANGED <<file, next, pc, record, weight, node1, node2, found,
                   graphLock, indicesLock, poisoned, nodes, edges, node_indices>>
    /\ UNCHANGED detectorVars
    /\ UNCHANGED genVars

\* par_bridge: a worker pulls the next item of the shared iterator, or finds
\* the iterator exhausted and ends.
Take(w) ==
    /\ result = "running"
    /\ pc[w] = "idle"
    /\ IF next < Len(Records(file.rows))
       THEN /\ record' = [record EXCEPT ![w] = Records(file.rows)[next + 1]]
            /\ next' = next + 1
            /\ pc' = [pc EXCEPT ![w] = "parse"]
       ELSE /\ pc' = [pc EXCEPT ![w] = "done"]
            /\ UNCHANGED <<record, next>>
    /\ UNCHANGED <<file, result, weight, node1, node2, found,
                   graphLock, indicesLock, poisoned, nodes, edges, node_indices>>
    /\ UNCHANGED detectorVars
    /\ UNCHANGED genVars

\* record.unwrap(), record[0], record[1] and record[2] panic on an Err item
\* and on a missing field; the weight falls back to 1.  (lines 101-104)
Parse(w) ==
    /\ pc[w] = "parse"
    /\ IF record[w].ok /\ Len(record[w].fields) >= 3
       THEN /\ weight' = [weight EXCEPT ![w] = ParseWeight(record[w].fields[3])]
            /\ pc' = [pc EXCEPT ![w] = "lock_graph"]
       ELSE /\ pc' = [pc EXCEPT ![w] = "panicked"]
            /\ UNCHANGED weight
    /\ UNCHANGED <<file, result, next, record, node1, node2, found,
                   graphLock, indicesLock, poisoned, nodes, edges, node_indices>>
    /\ UNCHANGED detectorVars
    /\ UNCHANGED genVars

User1(w) == record[w].fields[1]

User2(w) == record[w].fields[2]

\* A lock that does not exclude: lock() succeeds whoever holds the mutex.
CanLock_NoExclusion(holder) == TRUE

\* A mutex can be taken when nobody holds it.
CanLock(holder) == holder = NoWorker

\* graph.lock().unwrap(): blocks while the mutex is held, panics when it is
\* poisoned.  (line 106)
LockGraph(w) ==
    /\ pc[w] = "lock_graph"
    /\ CanLock(graphLock)
    /\ IF "graph" \in poisoned
       THEN /\ pc' = [pc EXCEPT ![w] = "panicked"]
            /\ UNCHANGED graphLock
       ELSE /\ graphLock' = w
            /\ pc' = [pc EXCEPT ![w] = "lock_indices"]
    /\ UNCHANGED <<file, result, next, record, weight, node1, node2, found,
                   indicesLock, poisoned, nodes, edges, node_indices>>
    /\ UNCHANGED detectorVars
    /\ UNCHANGED genVars

\* node_indices.lock().unwrap(); a panic here unwinds through the graph
\* guard, which releases and poisons the graph mutex.  (line 107)
LockIndices(w) ==
    /\ pc[w] = "lock_indices"
    /\ CanLock(indicesLock)
    /\ IF "node_indices" \in poisoned
       THEN /\ pc' = [pc EXCEPT ![w] = "panicked"]
            /\ graphLock' = NoWorker
            /\ poisoned' = poisoned \cup {"graph"}
            /\ UNCHANGED indicesLock
       ELSE /\ indicesLock' = w
            /\ pc' = [pc EXCEPT ![w] = "node1"]
            /\ UNCHANGED <<graphLock, poisoned>>
    /\ UNCHANGED <<file, result, next, record, weight, node1, node2, found,
                   nodes, edges, node_indices>>
    /\ UNCHANGED detectorVars
    /\ UNCHANGED genVars

\* Graph::add_node: the new node gets the next index.
AddNode(ns, name) == Append(ns, name)

\* HashMap::entry(k).or_insert_with(|| graph.add_node(k)): the registry and
\* the node list after the call.  Registered_Never is insert in place of
\* or_insert_with: a node is added on every sighting.
Registered_Never(reg, name) == FALSE

Registered(reg, name) == name \in DOMAIN reg

\* insert in place of entry().or_insert_with(): every sighting stores the
\* current node count as the identifier's index.
RegistryAfter_Reinsert(reg, ns, name) ==
    [k \in DOMAIN reg \cup {name} |-> IF k = name THEN Len(ns) ELSE reg[k]]

RegistryAfter(reg, ns, name) ==
    IF Registered(reg, name) THEN reg
    ELSE [k \in DOMAIN reg \cup {name} |-> IF k = name THEN Len(ns) ELSE reg[k]]

NodesAfter(reg, ns, name) ==
    IF Registered(reg, name) THEN ns ELSE AddNode(ns, name)

\* lines 109-111
Node1(w) ==
    /\ pc[w] = "node1"
    /\ node_indices' = RegistryAfter(node_indices, nodes, User1(w))
    /\ nodes' = NodesAfter(node_indices, nodes, User1(w))
    /\ node1' = [node1 EXCEPT ![w] = node_indices'[User1(w)]]
    /\ pc' = [pc EXCEPT ![w] = "node2"]
    /\ UNCHANGED <<file, result, next, record, weight, node2, found,
                   graphLock, indicesLock, poisoned, edges>>
    /\ UNCHANGED detectorVars
    /\ UNCHANGED genVars

\* lines 112-114
Node2(w) ==
    /\ pc[w] = "node2"
    /\ node_indices' = RegistryAfter(node_indices, nodes, User2(w))
    /\ nodes' = NodesAfter(node_indices, nodes, User2(w))
    /\ node2' = [node2 EXCEPT ![w] = node_indices'[User2(w)]]
    /\ pc' = [pc EXCEPT ![w] = "find_edge"]
    /\ UNCHANGED <<file, result, next, record, weight, node1, found,
                   graphLock, indicesLock, poisoned, edges>>
    /\ UNCHANGED detectorVars
    /\ UNCHANGED genVars

\* Graph::find_edge(a, b) on a directed graph: walks the outgoing edges of a,
\* newest first, and returns the first one whose target is b.
EdgeMatches(e, a, b) == e.source = a /\ e.target = b

FindEdgeIn(es, a, b) ==
    LET hits == {i \in 1..Len(es) : EdgeMatches(es[i], a, b)}
    IN  IF hits = {} THEN None
        ELSE (CHOOSE i \in hits : \A j \in hits : j <= i) - 1

\* line 116
FindEdge(w) ==
    /\ pc[w] = "find_edge"
    /\ found' = [found EXCEPT ![w] = FindEdgeIn(edges, node1[w], node2[w])]
    /\ pc' = [pc EXCEPT ![w] = "upsert"]
    /\ UNCHANGED <<file, result, next, record, weight, node1, node2,
                   graphLock, indicesLock, poisoned, nodes, edges, node_indices>>
    /\ UNCHANGED detectorVars
    /\ UNCHANGED genVars

\* Graph::add_edge
AddEdge(es, a, b, wt) == Append(es, [source |-> a, target |-> b, weight |-> wt])

\* The closure's locals are gone once it returns or unwinds.
Forget(w) ==
    /\ record' = [record EXCEPT ![w] = NoRecord]
    /\ weight' = [weight EXCEPT ![w] = Zero]
    /\ node1' = [node1 EXCEPT ![w] = None]
    /\ node2' = [node2 EXCEPT ![w] = None]
    /\ found' = [found EXCEPT ![w] = None]

\* graph[edge] += weight on a u32.  With overflow checks (the dev profile) a
\* sum above u32::MAX panics; without them (the release profile) it wraps.
\* The set of outcomes: "panic", or the stored weight.
MergedWeights(old, wt) ==
    IF FitsU32(Add(old, wt)) THEN {Add(old, wt)}
    ELSE {<<"panic">>, WrappingAdd(old, wt)}

\* The guards leaked (mem::forget) instead of dropped: the upsert is done but
\* both mutexes stay locked.
Upsert_KeepsLocks(w) ==
    /\ pc[w] = "upsert"
    /\ IF found[w] # None
       THEN \E m \in MergedWeights(edges[found[w] + 1].weight, weight[w]) :
              IF m = <<"panic">>
              THEN /\ pc' = [pc EXCEPT ![w] = "panicked"]
                   /\ poisoned' = poisoned \cup {"graph", "node_indices"}
                   /\ UNCHANGED edges
              ELSE /\ edges' = [edges EXCEPT ![found[w] + 1].weight = m]
                   /\ pc' = [pc EXCEPT ![w] = "idle"]
                   /\ UNCHANGED poisoned
       ELSE /\ edges' = AddEdge(edges, node1[w], node2[w], weight[w])
            /\ pc' = [pc EXCEPT ![w] = "idle"]
            /\ UNCHANGED poisoned
    /\ Forget(w)
    /\ UNCHANGED <<file, result, next, nodes, node_indices, graphLock, indicesLock>>
    /\ UNCHANGED detectorVars
    /\ UNCHANGED genVars

\* lines 116-121: merge into the edge found or add a new edge, then drop both
\* guards at the end of the closure.  A panic drops them too and poisons
\* both mutexes.
Upsert(w) ==
    /\ pc[w] = "upsert"
    /\ IF found[w] # None
       THEN \E m \in MergedWeights(edges[found[w] + 1].weight, weight[w]) :
              IF m = <<"panic">>
              THEN /\ pc' = [pc EXCEPT ![w] = "panicked"]
                   /\ poisoned' = poisoned \cup {"graph", "node_indices"}
                   /\ UNCHANGED edges
              ELSE /\ edges' = [edges EXCEPT ![found[w] + 1].weight = m]
                   /\ pc' = [pc EXCEPT ![w] = "idle"]
                   /\ UNCHANGED poisoned
       ELSE /\ edges' = AddEdge(edges, node1[w], node2[w], weight[w])
            /\ pc' = [pc EXCEPT ![w] = "idle"]
            /\ UNCHANGED poisoned
    /\ graphLock' = NoWorker
    /\ indicesLock' = NoWorker
    /\ Forget(w)
    /\ UNCHANGED <<file, result, next, nodes, node_indices>>
    /\ UNCHANGED detectorVars
    /\ UNCHANGED genVars

\* for_each returns when every worker has ended; a panic of any worker is
\* resumed in the caller.  Otherwise line 123 unwraps the graph and from_csv
\* (lines 86-90) wraps it with an empty labels map.
Finish ==
    /\ result = "running"
    /\ \A w \in Workers : pc[w] \in {"done", "panicked"}
    /\ result' = IF \E w \in Workers : pc[w] = "panicked" THEN "panic" ELSE "ok"
    /\ labels' = EmptyMap
    /\ UNCHANGED <<file, next, pc, record, weight, node1, node2, found,
                   graphLock, indicesLock, poisoned, nodes, edges, node_indices>>
    /\ UNCHANGED <<communities, dotFile, detected, lastCall>>
    /\ UNCHANGED genVars

\* build_graph_from_csv_parallel on its own, its threads scheduled fairly:
\* the caller runs on until the call returns, and each rayon worker is an
\* operating-system thread that takes its next step whenever that step stays
\* possible.
ConstructionNext ==
    \/ Open
    \/ \E w \in Workers : Take(w)
    \/ \E w \in Workers : Parse(w)
    \/ \E w \in Workers : LockGraph(w)
    \/ \E w \in Workers : LockIndices(w)
    \/ \E w \in Workers : Node1(w)
    \/ \E w \in Workers : Node2(w)
    \/ \E w \in Workers : FindEdge(w)
    \/ \E w \in Workers : Upsert(w)
    \/ Finish

WorkerStep(w) ==
    \/ Take(w)
    \/ Parse(w)
    \/ LockGraph(w)
    \/ LockIndices(w)
    \/ Node1(w)
    \/ Node2(w)
    \/ FindEdge(w)
    \/ Upsert(w)

\* The files of the fair runs: no file, the weight files, the shapes, and
\* files with a row of one or two fields beside a well-formed one.
ConstructionFiles ==
    {f \in Files :
        \/ ~f.exists
        \/ f.rows \in WeightFiles \cup ShapeFiles
        \/ f.rows \in {<<p, q, r>> : p \in {<<"x", "y", <<"2">>>>}, q \in ShortRows, r \in Rows}
        \/ f.rows \in {<<p, q, r>> : p \in {<<"x", "y", <<"2">>>>}, q \in Rows, r \in ShortRows}}

ConstructionInit == Init /\ file \in ConstructionFiles

SpecConstruction ==
    /\ ConstructionInit
    /\ [][ConstructionNext]_vars
    /\ WF_vars(Open)
    /\ \A w \in Workers : WF_vars(WorkerStep(w))
    /\ WF_vars(Finish)

\* ---------------------------------------------------------------- tarjan_scc

\* Graph::neighbors(v) of a directed graph: the targets of the outgoing edges
\* of v, the edge added last first.
RECURSIVE Outgoing(_, _, _)
Outgoing(es, v, i) ==
    IF i = 0 THEN <<>>
    ELSE IF es[i].source = v THEN <<es[i].target>> \o Outgoing(es, v, i - 1)
    ELSE Outgoing(es, v, i - 1)

\* neighbors_undirected in place of neighbors: edges are followed both ways.
RECURSIVE Adjacent(_, _, _)
Adjacent(es, v, i) ==
    IF i = 0 THEN <<>>
    ELSE IF es[i].source = v THEN <<es[i].target>> \o Adjacent(es, v, i - 1)
    ELSE IF es[i].target = v THEN <<es[i].source>> \o Adjacent(es, v, i - 1)
    ELSE Adjacent(es, v, i - 1)

Neighbors_Undirected(es, v) == Adjacent(es, v, Len(es))

Neighbors(es, v) == Outgoing(es, v, Len(es))

\* TarjanScc starts componentcount at usize::MAX, a value above every
\* discovery index; 2^30 plays that part within TLC's integers.
ComponentCountStart == 2 ^ 30

\* rootindex: None is 0, discovery indices start at 1.
TarjanStart(n) ==
    [rootindex |-> [i \in 1..n |-> 0], index |-> 1,
     componentcount |-> ComponentCountStart, stack |-> <<>>, sccs |-> <<>>]

\* The rposition scan of the stack from its top: every entry whose rootindex
\* is not below the root's joins the component.
RECURSIVE PopScan(_, _, _, _)
PopScan(st, v, k, adjustment) ==
    IF k = 0 THEN [st |-> st, start |-> 0, adjustment |-> adjustment]
    ELSE IF st.rootindex[v + 1] > st.rootindex[st.stack[k] + 1]
    THEN [st |-> st, start |-> k, adjustment |-> adjustment]
    ELSE PopScan([st EXCEPT !.rootindex[st.stack[k] + 1] = st.componentcount],
                 v, k - 1, adjustment + 1)

RECURSIVE Visit(_, _, _)
RECURSIVE VisitNeighbors(_, _, _, _, _)

\* The loop over g.neighbors(v) inside visit.
VisitNeighbors(es, st, v, ws, isRoot) ==
    IF ws = <<>> THEN [st |-> st, isRoot |-> isRoot]
    ELSE LET w == Head(ws)
             st1 == IF st.rootindex[w + 1] = 0 THEN Visit(es, st, w) ELSE st
         IN  IF st1.rootindex[w + 1] < st1.rootindex[v + 1]
             THEN VisitNeighbors(es, [st1 EXCEPT !.rootindex[v + 1] = st1.rootindex[w + 1]],
                                 v, Tail(ws), FALSE)
             ELSE VisitNeighbors(es, st1, v, Tail(ws), isRoot)

\* TarjanScc::visit
Visit(es, st, v) ==
    LET entered == [st EXCEPT !.rootindex[v + 1] = st.index, !.index = st.index + 1]
        looped == VisitNeighbors(es, entered, v, Neighbors(es, v), TRUE)
        st1 == looped.st
    IN  IF looped.isRoot
        THEN LET scan == PopScan(st1, v, Len(st1.stack), 1)
                 st2 == scan.st
                 component == SubSeq(st2.stack, scan.start + 1, Len(st2.stack)) \o <<v>>
             IN  [st2 EXCEPT !.rootindex[v + 1] = st2.componentcount,
                             !.stack = SubSeq(st2.stack, 1, scan.start),
                             !.sccs = Append(st2.sccs, component),
                             !.index = st2.index - scan.adjustment,
                             !.componentcount = st2.componentcount - 1]
        ELSE [st1 EXCEPT !.stack = Append(st1.stack, v)]

\* A run without the loop over the nodes: only the nodes reachable from node 0
\* are visited.
Run_FromFirstNode(es, st, n, v) == IF n = 0 THEN st ELSE Visit(es, st, 0)

\* TarjanScc::run: visit every node not yet visited, in index order.
RECURSIVE Run(_, _, _, _)
Run(es, st, n, v) ==
    IF v = n THEN st
    ELSE Run(es, IF st.rootindex[v + 1] = 0 THEN Visit(es, st, v) ELSE st, n, v + 1)

\* petgraph::algo::tarjan_scc: the components in the order they are emitted.
TarjanScc(ns, es) == Run(es, TarjanStart(Len(ns)), Len(ns), 0).sccs

\* ------------------------------------------------------------ the detector

Range(f) == {f[k] : k \in DOMAIN f}

\* Ids that go on counting after the ids the labels map already holds.
LabelsOf_Continuing(scc, ns) ==
    LET members(k) == {ns[scc[k][i] + 1] : i \in 1..Len(scc[k])}
        ids(name) == {k \in 1..Len(scc) : name \in members(k)}
    IN  [name \in UNION {members(k) : k \in 1..Len(scc)} |->
            (CHOOSE k \in ids(name) : \A j \in ids(name) : j <= k) - 1
                + Cardinality(Range(labels))]

\* Ids that start at one.
LabelsOf_OneBased(scc, ns) ==
    LET members(k) == {ns[scc[k][i] + 1] : i \in 1..Len(scc[k])}
        ids(name) == {k \in 1..Len(scc) : name \in members(k)}
    IN  [name \in UNION {members(k) : k \in 1..Len(scc)} |->
            (CHOOSE k \in ids(name) : \A j \in ids(name) : j <= k)]

\* Ids counted from the component emitted last.
LabelsOf_LastFirst(scc, ns) ==
    LET members(k) == {ns[scc[k][i] + 1] : i \in 1..Len(scc[k])}
        ids(name) == {k \in 1..Len(scc) : name \in members(k)}
    IN  [name \in UNION {members(k) : k \in 1..Len(scc)} |->
            Len(scc) - (CHOOSE k \in ids(name) : \A j \in ids(name) : j <= k)]

\* The (identifier, community_id) pairs of line 136 collected into a HashMap:
\* a later pair for the same key replaces an earlier one.
LabelsOf(scc, ns) ==
    LET members(k) == {ns[scc[k][i] + 1] : i \in 1..Len(scc[k])}
        ids(name) == {k \in 1..Len(scc) : name \in members(k)}
    IN  [name \in UNION {members(k) : k \in 1..Len(scc)} |->
            (CHOOSE k \in ids(name) : \A j \in ids(name) : j <= k) - 1]

Ready == result = "ok" /\ lastCall # "save_panicked"

\* extend in place of assignment: the new pairs are merged into the map that
\* was there.
DetectCommunities_Merging ==
    /\ Ready
    /\ LET new == LabelsOf(TarjanScc(nodes, edges), nodes)
       IN  labels' = [k \in DOMAIN labels \cup DOMAIN new |->
                         IF k \in DOMAIN new THEN new[k] ELSE labels[k]]
    /\ detected' = TRUE
    /\ lastCall' = "detect"
    /\ UNCHANGED <<communities, dotFile>>
    /\ UNCHANGED buildVars
    /\ UNCHANGED genVars

\* detect_communities (lines 126-140)
DetectCommunities ==
    /\ Ready
    /\ labels' = LabelsOf(TarjanScc(nodes, edges), nodes)
    /\ detected' = TRUE
    /\ lastCall' = "detect"
    /\ UNCHANGED <<communities, dotFile>>
    /\ UNCHANGED buildVars
    /\ UNCHANGED genVars

\* The orders in which a HashMap with the given keys may be iterated.
Orders(keys) ==
    {s \in [1..Cardinality(keys) -> keys] : \A i, j \in DOMAIN s : s[i] = s[j] => i = j}

\* get_communities over one iteration order: each user is pushed onto the
\* vector of its community.
Grouped(lab, order) ==
    [c \in Range(lab) |-> SelectSeq(order, LAMBDA user : lab[user] = c)]

\* get_communities (lines 142-151)
GetCommunities ==
    /\ Ready
    /\ \E order \in Orders(DOMAIN labels) : communities' = Grouped(labels, order)
    /\ lastCall' = "get"
    /\ UNCHANGED <<labels, dotFile, detected>>
    /\ UNCHANGED buildVars
    /\ UNCHANGED genVars

\* Division of a number by ten: <<quotient, remainder>>.
DivMod10(n) ==
    LET t == (n[1] % 10) * Limb + n[2]
    IN  <<(<<n[1] \div 10, t \div 10>>), t % 10>>

\* Display of an unsigned integer: its decimal digits.
RECURSIVE ToDecimal(_)
ToDecimal(n) ==
    IF Less(n, Num(10)) THEN <<DigitChars[n[2] + 1]>>
    ELSE ToDecimal(DivMod10(n)[1]) \o <<DigitChars[DivMod10(n)[2] + 1]>>

\* The hue without the reduction modulo 360.
Hue_NoWrap(comm_id) == comm_id * 60

\* (comm_id * 60) % 360  (line 165)
Hue(comm_id) == (comm_id * 60) % 360

\* "{:.1} 0.5 0.7" of the hue as f32  (lines 166-169)
FillColor(hue) ==
    ToDecimal(Num(hue)) \o <<".", "0", " ", "0", ".", "5", " ", "0", ".", "7">>

\* node_to_community.get(username).unwrap(): the community of the node, or a
\* panic when the map has no entry for it.  (line 164)
Panicked == -1

\* get(username).copied().unwrap_or(0): a missing node gets community 0.
Lookup_OrDefault(lab, username) == IF username \in DOMAIN lab THEN lab[username] ELSE 0

Lookup(lab, username) == IF username \in DOMAIN lab THEN lab[username] ELSE Panicked

\* The DOT text as the list of its node statements and of its edge
\* statements, in index order; comm_ids holds the community found per node.
Descriptor(comm_ids, ns, es) ==
    [nodes |-> [i \in 1..Len(ns) |->
                  [index |-> i - 1, label |-> ns[i], fillcolor |-> FillColor(Hue(comm_ids[i]))]],
     edges |-> [i \in 1..Len(es) |->
                  [source |-> es[i].source, target |-> es[i].target,
                   label |-> ToDecimal(es[i].weight)]]]

\* save_graph_to_dot (lines 153-179): format!("{:?}", dot) runs the node
\* getter for every node before std::fs::write is called, so a panic of the
\* getter leaves the file unwritten.
SaveGraphToDot ==
    /\ Ready
    /\ LET comm_ids == [i \in 1..Len(nodes) |-> Lookup(labels, nodes[i])]
       IN  IF \E i \in 1..Len(nodes) : comm_ids[i] = Panicked
           THEN /\ lastCall' = "save_panicked"
                /\ UNCHANGED dotFile
           ELSE /\ dotFile' = Descriptor(comm_ids, nodes, edges)
                /\ lastCall' = "save"
    /\ UNCHANGED <<labels, communities, detected>>
    /\ UNCHANGED buildVars
    /\ UNCHANGED genVars

Next ==
    \/ Open
    \/ \E w \in Workers : Take(w)
    \/ \E w \in Workers : Parse(w)
    \/ \E w \in Workers : LockGraph(w)
    \/ \E w \in Workers : LockIndices(w)
    \/ \E w \in Workers : Node1(w)
    \/ \E w \in Workers : Node2(w)
    \/ \E w \in Workers : FindEdge(w)
    \/ \E w \in Workers : Upsert(w)
    \/ Finish
    \/ DetectCommunities
    \/ GetCommunities
    \/ SaveGraphToDot

Spec == Init /\ [][Next]_vars

\* ------------------------------------------------ the detector on its own

\* The graph and the registry after one worker has run the closure of lines
\* 100-121 on the records i, i + 1, ... in order.
RECURSIVE SequentialGraph(_, _, _)
SequentialGraph(recs, i, g) ==
    IF i > Len(recs) THEN g
    ELSE LET user1 == recs[i].fields[1]
             user2 == recs[i].fields[2]
             wt == ParseWeight(recs[i].fields[3])
             reg1 == RegistryAfter(g.node_indices, g.nodes, user1)
             ns1 == NodesAfter(g.node_indices, g.nodes, user1)
             reg2 == RegistryAfter(reg1, ns1, user2)
             ns2 == NodesAfter(reg1, ns1, user2)
             edge == FindEdgeIn(g.edges, reg2[user1], reg2[user2])
             es == IF edge # None
                   THEN [g.edges EXCEPT ![edge + 1].weight = WrappingAdd(@, wt)]
                   ELSE AddEdge(g.edges, reg2[user1], reg2[user2], wt)
         IN  SequentialGraph(recs, i + 1, [nodes |-> ns2, edges |-> es, node_indices |-> reg2])

EmptyGraph == [nodes |-> <<>>, edges |-> <<>>, node_indices |-> EmptyMap]

\* The files the detector is built from: a node in front of a cycle of two,
\* and a self-loop beside a cycle of two.
DetectorFiles ==
    { <<HeaderRow, <<"alice", "bob", <<"1">>>>, <<"carol", "bob", <<"1">>>>,
        <<"bob", "carol", <<"1">>>> >>,
      <<HeaderRow, <<"alice", "alice", <<"1">>>>, <<"bob", "carol", <<"1">>>>,
        <<"carol", "bob", <<"1">>>> >> }

\* A key of the labels map that names no node of the graph.
StaleKey == "zed"

\* The maps from a subset of the keys to the values.
PartialMaps(keys, vals) == UNION {[d -> vals] : d \in SUBSET keys}

\* A detector as from_csv returns it (lines 86-90), whose public labels field
\* the caller has set to some map.
DetectorInit ==
    \E rows \in DetectorFiles :
        LET g == SequentialGraph(Records(rows), 1, EmptyGraph)
        IN  /\ file = [exists |-> TRUE, rows |-> rows]
            /\ result = "ok"
            /\ next = Len(Records(rows))
            /\ pc = [w \in Workers |-> "done"]
            /\ record = [w \in Workers |-> NoRecord]
            /\ weight = [w \in Workers |-> Zero]
            /\ node1 = [w \in Workers |-> None]
            /\ node2 = [w \in Workers |-> None]
            /\ found = [w \in Workers |-> None]
            /\ graphLock = NoWorker
            /\ indicesLock = NoWorker
            /\ poisoned = {}
            /\ nodes = g.nodes
            /\ edges = g.edges
            /\ node_indices = g.node_indices
            /\ labels \in PartialMaps(DOMAIN g.node_indices \cup {StaleKey}, 0..MaxCommunityId)
            /\ communities = NoValue
            /\ dotFile = NoValue
            /\ detected = FALSE
            /\ lastCall = "none"
            /\ NewGenerator

DetectorNext ==
    \/ DetectCommunities
    \/ GetCommunities
    \/ SaveGraphToDot

SpecDetector == DetectorInit /\ [][DetectorNext]_vars

\* ----------------------------------------------------- the username generator

\* lines 23-30
Prefixes ==
    <<"dark", "shadow", "light", "blue", "red", "green", "gold", "silver",
      "phantom", "ninja", "stealth", "epic", "legend", "super", "mega">>

Suffixes ==
    <<"warrior", "hunter", "mage", "slayer", "knight", "rogue", "wizard",
      "assassin", "lord", "king", "queen", "master", "pro", "noob", "gamer">>

\* The exclusive end of rng.gen_range(1..999)  (line 44)
NumEnd == 999

\* The choices of thread_rng the model draws: the first two prefixes, the
\* first suffix, the two smallest numbers of the range.
DrawnPrefixes == {Prefixes[1], Prefixes[2]}

DrawnSuffixes == {Suffixes[1]}

DrawnNums == {n \in {1, 2} : n < NumEnd}

\* format!("{}{}{}", prefix, suffix, num): the pieces in a row, the number in
\* decimal.  No prefix starts another and no suffix holds a digit, so two
\* names are the same text iff they are the same sequence of pieces.
Format(prefix, suffix, num) == <<prefix, suffix>> \o ToDecimal(Num(num))

Names == {Format(p, x, n) : p \in DrawnPrefixes, x \in DrawnSuffixes, n \in DrawnNums}

Slot(state, name) == [state |-> state, name |-> name]

\* generate_unique_batch is entered (line 36): the items 0..count.
Call ==
    /\ genPc = "idle"
    /\ Len(returned) < MaxCalls
    /\ \E count \in 0..MaxCount : slots' = [i \in 1..count |-> Slot("todo", <<>>)]
    /\ genPc' = "running"
    /\ UNCHANGED <<used_names, making, returned>>
    /\ UNCHANGED buildVars
    /\ UNCHANGED detectorVars

\* The map_init closure (lines 40-45): a worker takes an item of the range
\* and formats a name from what its thread_rng draws.
Make(w) ==
    /\ genPc = "running"
    /\ making[w] = NoItem
    /\ \E i \in 1..Len(slots), name \in Names :
          /\ slots[i].state = "todo"
          /\ slots' = [slots EXCEPT ![i] = Slot("taken", <<>>)]
          /\ making' = [making EXCEPT ![w] = [item |-> i - 1, name |-> name]]
    /\ UNCHANGED <<used_names, genPc, returned>>
    /\ UNCHANGED buildVars
    /\ UNCHANGED detectorVars

\* A filter that lets every name through.
Inserted_Always(used, name) == TRUE

\* HashSet::insert returns true iff the set did not hold the value.
Inserted(used, name) == name \notin used

\* The filter closure (lines 47-50): under the mutex, insert the name; the
\* item stays in the batch iff the name was new.
Filter(w) ==
    /\ genPc = "running"
    /\ making[w] # NoItem
    /\ used_names' = used_names \cup {making[w].name}
    /\ slots' = [slots EXCEPT ![making[w].item + 1] =
                    Slot(IF Inserted(used_names, making[w].name) THEN "kept" ELSE "dropped",
                         making[w].name)]
    /\ making' = [making EXCEPT ![w] = NoItem]
    /\ UNCHANGED <<genPc, returned>>
    /\ UNCHANGED buildVars
    /\ UNCHANGED detectorVars

\* collect() (line 51): the names that passed the filter, in item order.
RECURSIVE Collected(_, _)
Collected(ss, i) ==
    IF i > Len(ss) THEN <<>>
    ELSE IF ss[i].state = "kept" THEN <<ss[i].name>> \o Collected(ss, i + 1)
    ELSE Collected(ss, i + 1)

\* The call returns once every item has been through the filter.
Return ==
    /\ genPc = "running"
    /\ \A i \in 1..Len(slots) : slots[i].state \in {"kept", "dropped"}
    /\ returned' = Append(returned, Collected(slots, 1))
    /\ genPc' = "idle"
    /\ UNCHANGED <<used_names, slots, making>>
    /\ UNCHANGED buildVars
    /\ UNCHANGED detectorVars

\* A generator on its own, as generate_interaction_csv makes it (line 61)
\* before the interaction file exists.
GeneratorInit == Init /\ ~file.exists

GeneratorNext ==
    \/ Call
    \/ \E w \in Workers : Make(w)
    \/ \E w \in Workers : Filter(w)
    \/ Return

SpecNames == GeneratorInit /\ [][GeneratorNext]_vars

\* ================================================================== claims

Built == result = "ok"

\* The rows with three fields, as (source, target) pairs.
IsTriple(row) == Len(row) = 3

RowNames == UNION {{r[1], r[2]} : r \in {file.rows[i] : i \in {j \in 1..Len(file.rows) : IsTriple(file.rows[j])}}}

\* The sum, as a mathematical integer, of the weights of the rows i..Len(rows)
\* whose ordered pair is (a, b).
RECURSIVE SumOfRows(_, _, _, _)
SumOfRows(rows, a, b, i) ==
    IF i > Len(rows) THEN Zero
    ELSE IF IsTriple(rows[i]) /\ rows[i][1] = a /\ rows[i][2] = b
    THEN Add(ParseWeight(rows[i][3]), SumOfRows(rows, a, b, i + 1))
    ELSE SumOfRows(rows, a, b, i + 1)

HasRowFor(rows, a, b) ==
    \E i \in 1..Len(rows) : IsTriple(rows[i]) /\ rows[i][1] = a /\ rows[i][2] = b

\* The edges from the node named a to the node named b.
EdgesBetween(a, b) ==
    {i \in 1..Len(edges) : nodes[edges[i].source + 1] = a /\ nodes[edges[i].target + 1] = b}

\* C1: after construction, for every ordered (source, target) pair of the
\* input file there is one edge, and its weight is the sum of the weights of
\* all rows of the file with that pair.
C1_WeightIsSumOfAllRows ==
    Built =>
        \A a \in RowNames, b \in RowNames :
            HasRowFor(file.rows, a, b) =>
                /\ Cardinality(EdgesBetween(a, b)) = 1
                /\ \A i \in EdgesBetween(a, b) :
                       edges[i].weight = SumOfRows(file.rows, a, b, 1)

\* C2: in every state of construction the graph holds at most one edge per
\* ordered (source, target) pair of nodes, and once construction has succeeded
\* every ordered pair of a processed record has its own edge, so that x->y
\* and y->x are two edges.
C2_OneEdgePerOrderedPair ==
    /\ \A i, j \in 1..Len(edges) :
           (edges[i].source = edges[j].source /\ edges[i].target = edges[j].target) => i = j
    /\ Built =>
           \A k \in 1..Len(Records(file.rows)) :
               EdgesBetween(Records(file.rows)[k].fields[1], Records(file.rows)[k].fields[2]) # {}

InCriticalSection(w) == pc[w] \in {"lock_indices", "node1", "node2", "find_edge", "upsert"}

\* Two workers hold records for the same ordered pair, one of them about to
\* upsert the edge and the other waiting for the graph lock.
C2_Witness ==
    \E w1 \in Workers, w2 \in Workers :
        /\ w1 # w2
        /\ pc[w1] = "upsert"
        /\ pc[w2] = "lock_graph"
        /\ User1(w1) = User1(w2)
        /\ User2(w1) = User2(w2)
        /\ User1(w1) # User2(w1)

\* C3: whenever no worker is inside the critical section, and after
\* construction, the registry is a bijection between the identifiers seen and
\* the graph's nodes: as many nodes as entries, no index shared, and the node
\* weight at node_indices[id] is id.
C3_RegistryBijection ==
    (\A w \in Workers : ~InCriticalSection(w)) =>
        /\ Len(nodes) = Cardinality(DOMAIN node_indices)
        /\ \A id \in DOMAIN node_indices :
               /\ node_indices[id] \in 0..(Len(nodes) - 1)
               /\ nodes[node_indices[id] + 1] = id
        /\ \A a \in DOMAIN node_indices, b \in DOMAIN node_indices :
               node_indices[a] = node_indices[b] => a = b
        /\ Built =>
               \A k \in 1..Len(Records(file.rows)) :
                   {Records(file.rows)[k].fields[1], Records(file.rows)[k].fields[2]}
                       \subseteq DOMAIN node_indices

\* Construction has succeeded on two records that mention the same two
\* identifiers again.
C3_Witness ==
    /\ Built
    /\ Len(Records(file.rows)) = 2
    /\ Len(nodes) = 2
    /\ \A w \in Workers : ~InCriticalSection(w)

Returned == result \in {"ok", "err", "panic"}

\* C4: if any row of the file is malformed (does not have three fields), the
\* construction call ends in the error outcome returned to its caller, and in
\* no other way.
C4_MalformedRowEndsInError ==
    (Returned /\ file.exists /\ \E i \in 1..Len(file.rows) : ~IsTriple(file.rows[i]))
        => result = "err"

\* Weight fields of the input that are no decimal u32: empty, non-numeric,
\* negative, and 2^32.
UnparsableWeightTexts ==
    { <<>>, <<"w">>, <<"-", "1">>,
      <<"4", "2", "9", "4", "9", "6", "7", "2", "9", "6">> }

PastParse(w) == pc[w] \in {"lock_graph", "lock_indices", "node1", "node2", "find_edge", "upsert"}

HasUnparsableWeight(row) == IsTriple(row) /\ row[3] \in UnparsableWeightTexts

\* C5: a row whose weight field does not parse as a u32 is not rejected and
\* raises no error: its worker goes on with weight 1 (a worker that holds a
\* well-formed record panics only on a poisoned lock), and a file whose one
\* record is such a row yields the one edge of weight 1.
C5_UnparsableWeightIsOne ==
    /\ \A w \in Workers :
           (PastParse(w) /\ HasUnparsableWeight(record[w].fields)) => weight[w] = One
    /\ \A w \in Workers :
           (pc[w] = "panicked" /\ record[w].ok /\ IsTriple(record[w].fields)) => poisoned # {}
    /\ (Returned /\ Len(file.rows) = 2 /\ IsTriple(file.rows[1])
            /\ HasUnparsableWeight(file.rows[2]))
           => /\ result = "ok"
              /\ Len(edges) = 1
              /\ edges[1].weight = One

\* Construction has succeeded on a file whose one record has an unparsable
\* weight.
C5_Witness ==
    /\ Built
    /\ Len(file.rows) = 2
    /\ HasUnparsableWeight(file.rows[2])
    /\ Len(edges) = 1

\* C6: the weight of every triple handed to the graph is at least 1, and so
\* is the weight of every edge, in every state.
C6_WeightAtLeastOne ==
    /\ \A w \in Workers : PastParse(w) => Less(Zero, weight[w])
    /\ \A i \in 1..Len(edges) : Less(Zero, edges[i].weight)

NodeNames == {nodes[i] : i \in 1..Len(nodes)}

Members(c) == {communities[c][i] : i \in 1..Len(communities[c])}

\* C7: after detect_communities, labels maps exactly the node identifiers of
\* the graph, and the member lists get_communities returns are pairwise
\* disjoint, without repetition, and cover the node set.
C7_LabelsPartitionNodes ==
    detected =>
        /\ DOMAIN labels = NodeNames
        /\ lastCall = "get" =>
               /\ \A c \in DOMAIN communities, d \in DOMAIN communities :
                      c # d => Members(c) \cap Members(d) = {}
               /\ \A c \in DOMAIN communities :
                      Cardinality(Members(c)) = Len(communities[c])
               /\ UNION {Members(c) : c \in DOMAIN communities} = NodeNames

\* get_communities has answered after detect_communities on a graph with
\* several communities, one of them with several members.
C7_Witness ==
    /\ detected
    /\ lastCall = "get"
    /\ Cardinality(DOMAIN communities) >= 3
    /\ \E c \in DOMAIN communities : Len(communities[c]) >= 2

\* The nodes reachable from the nodes of S along directed edges, S included.
RECURSIVE ReachableFrom(_)
ReachableFrom(S) ==
    LET step == S \cup {edges[i].target : i \in {j \in 1..Len(edges) : edges[j].source \in S}}
    IN  IF step = S THEN S ELSE ReachableFrom(step)

HasPath(u, v) == v \in ReachableFrom({u})

NodeIds == 0..(Len(nodes) - 1)

\* C8: after detect_communities two nodes have the same CommunityId iff each
\* reaches the other along directed edges.
C8_CommunitiesAreSccs ==
    detected =>
        \A u \in NodeIds, v \in NodeIds :
            /\ nodes[u + 1] \in DOMAIN labels
            /\ nodes[v + 1] \in DOMAIN labels
            /\ (labels[nodes[u + 1]] = labels[nodes[v + 1]]) <=> (HasPath(u, v) /\ HasPath(v, u))

\* A labelled graph with two nodes on a cycle in one community and a node
\* with only a self-loop alone in its own.
C8_Witness ==
    /\ detected
    /\ \E u \in NodeIds, v \in NodeIds :
           u # v /\ labels[nodes[u + 1]] = labels[nodes[v + 1]]
    /\ \E u \in NodeIds :
           /\ \E i \in 1..Len(edges) : edges[i].source = u /\ edges[i].target = u
           /\ \A v \in NodeIds : labels[nodes[v + 1]] = labels[nodes[u + 1]] => v = u

EdgeTriples == {<<nodes[edges[i].source + 1], nodes[edges[i].target + 1], edges[i].weight>> : i \in 1..Len(edges)}

\* C9: for the file with exactly the rows (alice,bob,5), (bob,alice,3),
\* (carol,dave,7), from_csv, detect_communities and get_communities give four
\* nodes, the three edges with their weights, and the three communities
\* {alice,bob}, {carol}, {dave}.
C9_EndToEndExample ==
    (file.rows = EndToEndRows /\ detected /\ lastCall = "get") =>
        /\ Len(nodes) = 4
        /\ Len(edges) = 3
        /\ EdgeTriples = { <<"alice", "bob", Num(5)>>, <<"bob", "alice", Num(3)>>,
                           <<"carol", "dave", Num(7)>> }
        /\ {Members(c) : c \in DOMAIN communities} = {{"alice", "bob"}, {"carol"}, {"dave"}}

\* C10: save_graph_to_dot with a node of the graph missing from labels, and
\* so on a non-empty graph before detect_communities, ends in a panic and
\* writes no file.
C10_SaveWithoutLabelPanics ==
    (lastCall \in {"save", "save_panicked"}
        /\ (NodeNames \ DOMAIN labels # {} \/ (~detected /\ Len(nodes) > 0)))
        => /\ lastCall = "save_panicked"
           /\ dotFile = NoValue

\* save_graph_to_dot was called on a non-empty graph before
\* detect_communities.
C10_Witness ==
    /\ lastCall = "save_panicked"
    /\ ~detected
    /\ Len(nodes) > 0

\* The characters of a text before the first occurrence of c.
RECURSIVE TextBefore(_, _)
TextBefore(chars, c) ==
    IF chars = <<>> \/ Head(chars) = c THEN <<>>
    ELSE <<Head(chars)>> \o TextBefore(Tail(chars), c)

\* The hue a fill colour encodes, in degrees, and what follows the hue.
HueDegrees(fillcolor) == ParseDigits(TextBefore(fillcolor, "."), Zero).val[2]

AfterHue(fillcolor) ==
    SubSeq(fillcolor, Len(TextBefore(fillcolor, ".")) + 1, Len(fillcolor))

\* C11: in the written descriptor the hue of a node is (CommunityId * 60) mod
\* 360 with fixed saturation and lightness: nodes of one community get the
\* same fill colour, and the hues of communities k and k + 1 differ by 60
\* degrees modulo 360.
C11_HueFollowsCommunity ==
    lastCall = "save" =>
        \A i \in 1..Len(nodes), j \in 1..Len(nodes) :
            LET ci == labels[nodes[i]]
                cj == labels[nodes[j]]
                fi == dotFile.nodes[i].fillcolor
                fj == dotFile.nodes[j].fillcolor
            IN  /\ HueDegrees(fi) = (ci * 60) % 360
                /\ AfterHue(fi) = <<".", "0", " ", "0", ".", "5", " ", "0", ".", "7">>
                /\ ci = cj => fi = fj
                /\ cj = ci + 1 => (HueDegrees(fj) + 360 - HueDegrees(fi)) % 360 = 60

\* A descriptor was written for nodes of the communities 5 and 6, whose hues
\* are 300 and 0.
C11_Witness ==
    /\ lastCall = "save"
    /\ \E i \in 1..Len(nodes), j \in 1..Len(nodes) :
           labels[nodes[i]] = 5 /\ labels[nodes[j]] = 6

Components == {{v \in NodeIds : HasPath(u, v) /\ HasPath(v, u)} : u \in NodeIds}

\* C13: after detect_communities on a graph with k strongly connected
\* components the CommunityIds in labels are exactly 0..k-1, and
\* get_communities returns k entries.
C13_IdsAreDense ==
    detected =>
        /\ Range(labels) = 0..(Cardinality(Components) - 1)
        /\ lastCall = "get" => Cardinality(DOMAIN communities) = Cardinality(Components)

\* get_communities has answered for a labelled graph of four nodes in three
\* components.
C13_Witness ==
    /\ detected
    /\ lastCall = "get"
    /\ Len(nodes) = 4
    /\ Cardinality(Components) = 3

\* A worker between its first registry lookup and the end of its edge upsert.
Mutating(w) == pc[w] \in {"node1", "node2", "find_edge", "upsert"}

\* C14: a worker holds the graph lock and the registry lock from before its
\* first registry lookup until after its edge upsert, having taken the graph
\* lock first; at most one worker is inside the section; and while a worker
\* stays inside it, between its find_edge and its upsert included, no step of
\* another worker changes the registry or the graph.
C14_OneCriticalSection ==
    /\ [](/\ \A w \in Workers :
               /\ Mutating(w) => (graphLock = w /\ indicesLock = w)
               /\ pc[w] = "lock_indices" => graphLock = w
          /\ \A w1 \in Workers, w2 \in Workers :
               (InCriticalSection(w1) /\ InCriticalSection(w2)) => w1 = w2)
    /\ [][\A w \in Workers :
             (InCriticalSection(w) /\ pc'[w] = pc[w])
                 => UNCHANGED <<nodes, edges, node_indices>>]_vars

\* A worker has looked its edge up in a graph that already has edges while
\* another worker waits for the graph lock.
C14_Witness ==
    \E w1 \in Workers, w2 \in Workers :
        /\ pc[w1] = "upsert"
        /\ pc[w2] = "lock_graph"
        /\ Len(edges) >= 1
        /\ found[w1] = None

\* The edges whose two ends carry different CommunityIds.
CrossEdges ==
    {i \in 1..Len(edges) :
        labels[nodes[edges[i].source + 1]] # labels[nodes[edges[i].target + 1]]}

\* C15: after detect_communities, every edge u->v between two components has
\* the CommunityId of v strictly below the CommunityId of u.
C15_ReverseTopologicalIds ==
    detected =>
        \A i \in CrossEdges :
            labels[nodes[edges[i].target + 1]] < labels[nodes[edges[i].source + 1]]

\* A labelled graph with an edge between two components, the lower node index
\* at its source, and a third component.
C15_Witness ==
    /\ detected
    /\ \E i \in CrossEdges : edges[i].source < edges[i].target
    /\ Cardinality(Range(labels)) >= 3

\* C16: once construction has succeeded no step changes the nodes, the edges
\* or their weights; get_communities and save_graph_to_dot leave labels as
\* they are; and after detect_communities labels holds the nodes of the graph
\* and nothing of what it held before.
C16_GraphFrozenLabelsReplaced ==
    [][Built =>
          /\ UNCHANGED <<nodes, edges, node_indices>>
          /\ lastCall' \in {"get", "save", "save_panicked"} => labels' = labels
          /\ lastCall' = "detect" => DOMAIN labels' = NodeNames]_vars

\* detect_communities has run on a detector whose labels held a key that is
\* no node, which get_communities had reported before.
C16_Witness ==
    /\ lastCall = "detect"
    /\ StaleKey \notin DOMAIN labels
    /\ communities # NoValue
    /\ \E c \in DOMAIN communities : StaleKey \in Members(c)

\* C17: the indices of the n registered identifiers are exactly 0..n-1; a
\* step keeps every registered identifier at its index, keeps every node
\* where it is, and gives a newly registered identifier the index n.
C17_IndicesDenseAndStable ==
    /\ [](Range(node_indices) = 0..(Cardinality(DOMAIN node_indices) - 1))
    /\ [][/\ \A id \in DOMAIN node_indices :
                id \in DOMAIN node_indices' /\ node_indices'[id] = node_indices[id]
          /\ \A id \in DOMAIN node_indices' \ DOMAIN node_indices :
                node_indices'[id] = Cardinality(DOMAIN node_indices)
          /\ Len(nodes') >= Len(nodes)
          /\ SubSeq(nodes', 1, Len(nodes)) = nodes]_vars

\* Construction has succeeded with three or more nodes, and a record names
\* an identifier that an earlier record had named.
C17_Witness ==
    /\ Built
    /\ Len(nodes) >= 3
    /\ \E j \in 1..Len(Records(file.rows)), k \in 1..Len(Records(file.rows)) :
           /\ j < k
           /\ {Records(file.rows)[j].fields[1], Records(file.rows)[j].fields[2]}
                  \cap {Records(file.rows)[k].fields[1], Records(file.rows)[k].fields[2]} # {}

\* A worker waiting for a mutex that another worker holds.
Blocked(w) ==
    \/ pc[w] = "lock_graph" /\ graphLock # NoWorker
    \/ pc[w] = "lock_indices" /\ indicesLock # NoWorker

\* C18: the registry lock is only ever taken by the holder of the graph
\* lock, a lock that is held is held by a worker that is not waiting, so in
\* no state are all workers blocked on a lock; and under fair scheduling the
\* call returns, with every record taken by a worker unless it aborts.
C18_ConstructionReturns ==
    /\ [](/\ indicesLock # NoWorker => graphLock = indicesLock
          /\ graphLock # NoWorker => (InCriticalSection(graphLock) /\ ~Blocked(graphLock))
          /\ ~(\A w \in Workers : Blocked(w)))
    /\ <>(Returned /\ (result = "ok" => next = Len(Records(file.rows))))

\* A worker waits for the graph lock while the other, past both locks, is
\* about to upsert, and records are left in the file.
C18_Witness ==
    /\ \E w1 \in Workers, w2 \in Workers :
           /\ Blocked(w1)
           /\ pc[w2] = "upsert"
           /\ graphLock = w2
    /\ next < Len(Records(file.rows))

\* C19: no step removes an edge or lowers an edge's weight, and a merge of a
\* record into an existing edge stores the previous weight plus the record's
\* weight, as mathematical integers.
C19_AccumulationNeverWraps ==
    [][\A i \in 1..Len(edges) :
          /\ i <= Len(edges')
          /\ ~Less(edges'[i].weight, edges[i].weight)
          /\ \A w \in Workers :
                (pc[w] = "upsert" /\ found[w] = i - 1 /\ pc'[w] = "idle")
                    => edges'[i].weight = Add(edges[i].weight, weight[w])]_vars

\* The names of a batch, and the names returned by all calls so far.
NamesOf(batch) == {batch[i] : i \in 1..Len(batch)}

ReturnedNames == UNION {NamesOf(returned[b]) : b \in 1..Len(returned)}

====
